---- MODULE Spec2Model ----
(***************************************************************************)
(* Model of the napi-rs-revm measurement harness: crates/core/src/lib.rs   *)
(* (execute_test, PerfEventCollector, the PerfReportConfig ->              *)
(* PerfEventConfig conversion, serialization of TestResult), and the two   *)
(* callers crates/napi/src/lib.rs and crates/cli/src/main.rs.              *)
(*                                                                         *)
(* f64 values are modelled as exact rationals <<numerator, denominator>>   *)
(* in lowest terms; the counter values the model draws are far below 2^53, *)
(* where the u64 -> f64 conversion is exact.                               *)
(***************************************************************************)
EXTENDS Integers, Sequences, FiniteSets, TLC

\* ------------------------------------------------------------------ bounds

\* Largest number of events of one kind a workload generates.
MaxCount == 1

\* Largest advance of the monotonic clock during one workload invocation.
MaxTick == 1

\* Number of perf-event group handles the kernel can hand out.
MaxGroups == 2

\* ------------------------------------------------------------- option type

None == [tag |-> "None"]

Some(x) == [tag |-> "Some", val |-> x]

IsSome(o) == o.tag = "Some"

IsNone(o) == o.tag = "None"

\* ---------------------------------------------------------------- f64 model

RECURSIVE Gcd(_, _)
Gcd(a, b) == IF b = 0 THEN a ELSE Gcd(b, a % b)

Abs(a) == IF a < 0 THEN 0 - a ELSE a

\* A rational n/d (d > 0) in lowest terms.
Rat(n, d) ==
    LET g == Gcd(Abs(n), d)
    IN  <<n \div g, d \div g>>

\* f64::from_u64: always Some for f64 (exact below 2^53).
F64FromU64(n) == Rat(n, 1)

\* f64 division x / y, y /= 0, x and y non-negative.
F64Div(x, y) == Rat(x[1] * y[2], x[2] * y[1])

\* f64 subtraction x - y.
F64Sub(x, y) == Rat(x[1] * y[2] - y[1] * x[2], x[2] * y[2])

F64One == Rat(1, 1)

F64Zero == Rat(0, 1)

\* ------------------------------------------------------------ configuration

\* The fields of PerfReportConfig (and the slots of PerfReport).
Metrics ==
    { "instructions", "instructions_per_cycle", "last_level_cache_hit_rate",
      "l1_data_cache_hit_rate", "l1_instruction_cache_misses",
      "branch_miss_ratio", "cpu_migrations" }

\* The fields of PerfEventConfig, in declaration order; PerfEventCollector::new
\* programs the counters in this order.
CounterOrder ==
    << "cycles", "instructions", "last_level_cache_references",
       "last_level_cache_misses", "l1_data_cache_reads", "l1_data_cache_misses",
       "l1_instruction_cache_misses", "branch_instructions", "branch_misses",
       "cpu_migrations" >>

Counters == { CounterOrder[i] : i \in 1..Len(CounterOrder) }

\* Every PerfReportConfig value.
PerfReportConfigs == [Metrics -> BOOLEAN]

\* PerfEventConfig::default().
PerfEventConfigDefault == [k \in Counters |-> FALSE]

\* A plausible slip: instructions-per-cycle programs the cycle counter only.
FromReportConfigNoInstr(value) ==
    [ cycles                      |-> value.instructions_per_cycle,
      instructions                |-> value.instructions,
      last_level_cache_references |-> value.last_level_cache_hit_rate,
      last_level_cache_misses     |-> value.last_level_cache_hit_rate,
      l1_data_cache_reads         |-> value.l1_data_cache_hit_rate,
      l1_data_cache_misses        |-> value.l1_data_cache_hit_rate,
      l1_instruction_cache_misses |-> value.l1_instruction_cache_misses,
      branch_instructions         |-> value.branch_miss_ratio,
      branch_misses               |-> value.branch_miss_ratio,
      cpu_migrations              |-> value.cpu_migrations ]

\* impl From<PerfReportConfig> for PerfEventConfig: the seven `if` statements
\* applied in order to the default (all false) configuration.
FromReportConfig(value) ==
    LET c0 == PerfEventConfigDefault
        c1 == IF value.instructions
              THEN [c0 EXCEPT !.instructions = TRUE] ELSE c0
        c2 == IF value.instructions_per_cycle
              THEN [c1 EXCEPT !.cycles = TRUE, !.instructions = TRUE] ELSE c1
        c3 == IF value.last_level_cache_hit_rate
              THEN [c2 EXCEPT !.last_level_cache_references = TRUE,
                              !.last_level_cache_misses = TRUE] ELSE c2
        c4 == IF value.l1_data_cache_hit_rate
              THEN [c3 EXCEPT !.l1_data_cache_reads = TRUE,
                              !.l1_data_cache_misses = TRUE] ELSE c3
        c5 == IF value.l1_instruction_cache_misses
              THEN [c4 EXCEPT !.l1_instruction_cache_misses = TRUE] ELSE c4
        c6 == IF value.branch_miss_ratio
              THEN [c5 EXCEPT !.branch_instructions = TRUE,
                              !.branch_misses = TRUE] ELSE c5
        c7 == IF value.cpu_migrations
              THEN [c6 EXCEPT !.cpu_migrations = TRUE] ELSE c6
    IN  c7

\* The counters a PerfEventConfig asks for.
RequiredCounters(config) == { k \in Counters : config[k] }

\* ------------------------------------------------------------- the report

\* A plausible slip: a counter that was not programmed reads as zero
\* (unwrap_or_default) instead of None.
CountToF64OrZero(counters, counts, k) == Some(F64FromU64(counts[k]))

\* count_to_f64!: None for a counter that is not in the collector, else the
\* count read for it, as f64.
CountToF64(counters, counts, k) ==
    IF k \in counters THEN Some(F64FromU64(counts[k])) ELSE None

\* A plausible slip: the zero guard on the denominator is missing, and the
\* division by zero yields a value instead of None.
RatioNoGuard(num, den) ==
    IF IsSome(num) /\ IsSome(den)
    THEN IF den.val = F64Zero THEN Some(F64One) ELSE Some(F64Div(num.val, den.val))
    ELSE None

\* match (num, den) { (Some(n), Some(d)) if d != 0.0 => Some(n / d), _ => None }
Ratio(num, den) ==
    IF IsSome(num) /\ IsSome(den) /\ den.val # F64Zero
    THEN Some(F64Div(num.val, den.val))
    ELSE None

\* match ... => Some(1.0 - (misses / total)), _ => None
HitRate(misses, total) ==
    LET r == Ratio(misses, total)
    IN  IF IsSome(r) THEN Some(F64Sub(F64One, r.val)) ELSE None

\* PerfEventCollector::report after the read: the PerfReport built from the
\* counters the collector holds (those that are Some) and the counts read.
DeriveReport(counters, counts) ==
    [ instructions |-> CountToF64(counters, counts, "instructions"),
      instructions_per_cycle |->
          Ratio(CountToF64(counters, counts, "instructions"),
                CountToF64(counters, counts, "cycles")),
      last_level_cache_hit_rate |->
          HitRate(CountToF64(counters, counts, "last_level_cache_misses"),
                  CountToF64(counters, counts, "last_level_cache_references")),
      l1_data_cache_hit_rate |->
          HitRate(CountToF64(counters, counts, "l1_data_cache_misses"),
                  CountToF64(counters, counts, "l1_data_cache_reads")),
      l1_instruction_cache_misses |->
          CountToF64(counters, counts, "l1_instruction_cache_misses"),
      branch_miss_ratio |->
          Ratio(CountToF64(counters, counts, "branch_misses"),
                CountToF64(counters, counts, "branch_instructions")),
      cpu_migrations |-> CountToF64(counters, counts, "cpu_migrations") ]

\* ---------------------------------------------------------- serialization

\* A JSON value as serde_json writes it.
JsonNull == [type |-> "null"]

JsonNumber(x) == [type |-> "number", val |-> x]

JsonObject(fields) == [type |-> "object", fields |-> fields]

\* #[serde(rename_all = "camelCase")] on the fields of PerfReport.
CamelCase ==
    [ instructions                |-> "instructions",
      instructions_per_cycle      |-> "instructionsPerCycle",
      last_level_cache_hit_rate   |-> "lastLevelCacheHitRate",
      l1_data_cache_hit_rate      |-> "l1DataCacheHitRate",
      l1_instruction_cache_misses |-> "l1InstructionCacheMisses",
      branch_miss_ratio           |-> "branchMissRatio",
      cpu_migrations              |-> "cpuMigrations" ]

\* The metric a camelCase key of PerfReport stands for.
MetricOfKey(key) == CHOOSE m \in Metrics : CamelCase[m] = key

\* derive(Serialize) for PerfReport: every field carries
\* skip_serializing_if = "Option::is_none", so a None slot writes no key.
SerializePerfReport(report) ==
    JsonObject([ key \in { CamelCase[m] : m \in { x \in Metrics : IsSome(report[x]) } }
                 |-> JsonNumber(report[MetricOfKey(key)].val) ])

\* derive(Serialize) for TestResult: neither field is skipped, so a None
\* perf_report is written as "perfReport": null.
SerializeTestResult(r) ==
    JsonObject([ durationNs |-> JsonNumber(r.duration_ns),
                 perfReport |-> IF IsSome(r.perf_report)
                                THEN SerializePerfReport(r.perf_report.val)
                                ELSE JsonNull ])

\* ------------------------------------------------------------ entry points

\* core: execute_test called directly; napi: execute_test_sync and
\* execute_test_async; cli: the ExecuteTestSync and ExecuteTestAsync commands.
Entries == { "core", "napi_sync", "napi_async", "cli_sync", "cli_async" }

CliEntries == { "cli_sync", "cli_async" }

NapiEntries == { "napi_sync", "napi_async" }

\* The entry points that run execute_test inside spawn_blocking.
AsyncEntries == { "napi_async", "cli_async" }

\* impl From<PerfReportConfig> for napi_rs_revm_core::PerfReportConfig.
NapiConfigInto(value) == [m \in Metrics |-> value[m]]

\* cli main: Some(config) when at least one flag is set, else None.
CliConfigOpt(config) ==
    IF \E m \in Metrics : config[m] THEN Some(config) ELSE None

\* The Option<PerfReportConfig> an entry point hands to the core execute_test.
EntryConfig(e, a) ==
    CASE e \in CliEntries  -> CliConfigOpt(a.val)
      [] e \in NapiEntries -> IF IsSome(a) THEN Some(NapiConfigInto(a.val)) ELSE None
      [] OTHER             -> a

\* The arguments an entry point accepts: the CLI always builds a config from
\* its flags, the others take an Option.
EntryArgs(e) ==
    IF e \in CliEntries
    THEN { Some(c) : c \in PerfReportConfigs }
    ELSE { None } \cup { Some(c) : c \in PerfReportConfigs }

\* ----------------------------------------------------------------- results

Ok(v) == [tag |-> "Ok", val |-> v]

Err(e) == [tag |-> "Err", err |-> e]

IsOk(r) == r.tag = "Ok"

IsErr(r) == r.tag = "Err"

\* impl From<napi_rs_revm_core::PerfReport> for PerfReport (napi).
NapiPerfReportFrom(value) == [m \in Metrics |-> value[m]]

\* impl From<napi_rs_revm_core::TestResult> for TestResult (napi).
NapiTestResultFrom(value) ==
    [ duration_ns |-> value.duration_ns,
      perf_report |-> IF IsSome(value.perf_report)
                      THEN Some(NapiPerfReportFrom(value.perf_report.val))
                      ELSE None ]

\* --------------------------------------------------------------- workloads

\* ExecutionResult::{Success, Revert, Halt}, or transact returning Err.
Outcomes == { "success", "revert", "halt", "error" }

\* The counters that serve as denominators of a ratio.
Denominators ==
    { "cycles", "last_level_cache_references", "l1_data_cache_reads",
      "branch_instructions" }

\* The hardware events one workload invocation generates on its thread:
\* d events of every denominator kind, n of every other kind.
EventProfile(n, d) == [k \in Counters |-> IF k \in Denominators THEN d ELSE n]

\* What one invocation of the workload can do: its outcome, its hardware
\* events, and how far the monotonic clock advances while it runs.
Workloads ==
    { [outcome |-> o, n |-> n, d |-> d, tick |-> c] :
        o \in Outcomes, n \in 0..MaxCount, d \in 0..MaxCount, c \in 0..MaxTick }

\* ------------------------------------------------------------------- state

\* The threads that can run an invocation of execute_test: the caller's
\* thread, or a thread of tokio's blocking pool (spawn_blocking).
Threads == { "t1", "t2" }

GroupIds == 1..MaxGroups

VARIABLES
    th,      \* per thread: the locals of the invocation it runs
    groups,  \* the kernel's perf-event groups, by handle
    now,     \* the monotonic clock (Instant)
    calc     \* the conversion and derivation functions applied to drawn inputs

vars == <<th, groups, now, calc>>

ZeroCounts == [k \in Counters |-> 0]

\* A handle that is not open.
ClosedGroup ==
    [ open |-> FALSE, owner |-> "none", enabled |-> FALSE, members |-> {},
      counts |-> ZeroCounts, users |-> {} ]

\* The locals of a thread before execute_test has run on it.
NewThread(e, a, w) ==
    [ pc |-> "call", entry |-> e, arg |-> a, wl |-> w,
      perf_report_config |-> None, perf_config |-> PerfEventConfigDefault,
      idx |-> 1, collector |-> None, start |-> None, elapsed |-> None,
      test_result |-> None, work |-> None, perf_report |-> None,
      result |-> None, ret |-> None, stdout |-> None, log |-> <<>> ]

\* A thread that runs no invocation.
IdleThread == [NewThread("core", None, {}) EXCEPT !.pc = "idle"]

\* The calculation record while no pure function is being applied.
CalcIdle ==
    [ stage |-> "idle", requested |-> [m \in Metrics |-> FALSE],
      required |-> PerfEventConfigDefault, counters |-> {},
      counts |-> ZeroCounts, report |-> None ]

\* --------------------------------------------------------------- the kernel

\* A plausible slip: the group is a process-wide singleton, every collector
\* gets the same handle.
AllocGroupShared(gs) == { 1 }

\* perf_event_open for a new group: the lowest handle that is not open.
AllocGroup(gs) ==
    LET free == { g \in GroupIds : ~gs[g].open }
    IN  IF free = {} THEN {} ELSE { CHOOSE g \in free : \A h \in free : g <= h }

\* A plausible slip: the counters are opened system-wide and count the events
\* of every thread.
ObservesAll(gs, g, t) == TRUE

\* Builder::new() defaults: a counter observes the thread that built it.
Observes(gs, g, t) == gs[g].owner = t

\* The groups after thread t generated the events ev: every open, enabled
\* group that observes t adds them to its member counters.
CountEvents(gs, t, ev) ==
    [ g \in GroupIds |->
        IF gs[g].open /\ gs[g].enabled /\ Observes(gs, g, t)
        THEN [gs[g] EXCEPT !.counts =
                 [k \in Counters |->
                     IF k \in gs[g].members THEN @[k] + ev[k] ELSE @[k]]]
        ELSE gs[g] ]

\* A plausible slip: the collector is leaked (mem::forget, or kept in a
\* static), and its group stays open and counting.
DropCollectorLeaked(gs, c) == gs

\* Drop for PerfEventCollector: the group and its counters are closed.
DropCollector(gs, c) ==
    IF IsSome(c) THEN [gs EXCEPT ![c.val.group] = ClosedGroup] ELSE gs

\* The groups after a step that took a thread from `old` to `new`: returning
\* from execute_test drops the collector the invocation held.
DropOnReturn(gs, old, new) ==
    IF new.pc = "return" THEN DropCollector(gs, old.collector) ELSE gs

\* Thread t uses the group of its collector (enable, disable, read).
Touch(gs, g, t) == [gs EXCEPT ![g].users = @ \cup {t}]

\* ------------------------------------------------------------- execute_test

\* The entry point's own code before the core execute_test runs: the napi
\* bindings convert the config, the CLI maps an all-false config to None.
Call(t) ==
    /\ th[t].pc = "call"
    /\ th' = [th EXCEPT ![t].pc = "prepare",
                        ![t].perf_report_config = EntryConfig(th[t].entry, th[t].arg)]
    /\ UNCHANGED <<groups, now, calc>>

\* Loading the artifact, creating the database and building the transaction;
\* each step returns its error with `?`.
Prepare(t) ==
    /\ th[t].pc = "prepare"
    /\ \/ th' = [th EXCEPT ![t].pc = "collector"]
       \/ th' = [th EXCEPT ![t].pc = "return", ![t].result = Some(Err("setup"))]
    /\ UNCHANGED <<groups, now, calc>>

\* perf_report_config.map(..): no collector for None, else the config is
\* converted and PerfEventCollector::new starts.
MakeCollector(t) ==
    /\ th[t].pc = "collector"
    /\ th' = IF IsNone(th[t].perf_report_config)
             THEN [th EXCEPT ![t].pc = "start"]
             ELSE [th EXCEPT ![t].pc = "new",
                             ![t].perf_config =
                                 FromReportConfig(th[t].perf_report_config.val)]
    /\ UNCHANGED <<groups, now, calc>>

\* perf_event::Group::new()?
GroupNew(t) ==
    /\ th[t].pc = "new"
    /\ \/ \E g \in AllocGroup(groups) :
            /\ groups' = [groups EXCEPT ![g] =
                   [ open |-> TRUE, owner |-> t, enabled |-> FALSE,
                     members |-> {}, counts |-> ZeroCounts, users |-> {t} ]]
            /\ th' = [th EXCEPT ![t].pc = "program", ![t].idx = 1,
                                ![t].collector =
                                    Some([group |-> g, counters |-> {}]),
                                ![t].log = Append(@, "open")]
       \/ /\ th' = [th EXCEPT ![t].pc = "return",
                              ![t].result = Some(Err("collector_open"))]
          /\ UNCHANGED groups
    /\ UNCHANGED <<now, calc>>

\* The locals after a step moved on to the next counter of the config.
NextCounter(thr) ==
    IF thr.idx = Len(CounterOrder)
    THEN [thr EXCEPT !.pc = "enable"]
    ELSE [thr EXCEPT !.idx = @ + 1]

\* A plausible slip: a counter that cannot be built is left out (.build().ok())
\* and the collector goes on with the rest.
BuildFailedSkipped(thr) == NextCounter(thr)

\* perf_event!: .build()? returns the error from PerfEventCollector::new, and
\* the `?` on new returns it from execute_test.
BuildFailed(thr) ==
    [thr EXCEPT !.pc = "return", !.collector = None,
                !.result = Some(Err("collector_open"))]

\* One optional_perf_event! of PerfEventCollector::new: the counter is built
\* in the group when the config asks for it, and a failed build returns the
\* error and drops what was opened so far.
ProgramCounter(t) ==
    /\ th[t].pc = "program"
    /\ LET k == CounterOrder[th[t].idx]
           g == th[t].collector.val.group
       IN  \/ /\ th[t].perf_config[k]
              /\ groups' = [groups EXCEPT ![g].members = @ \cup {k}]
              /\ th' = [th EXCEPT ![t] =
                           NextCounter([@ EXCEPT !.collector =
                               Some([group |-> g,
                                     counters |-> @.val.counters \cup {k}])])]
           \/ /\ th[t].perf_config[k]
              /\ th' = [th EXCEPT ![t] = BuildFailed(@)]
              /\ groups' = DropOnReturn(groups, th[t], th'[t])
           \/ /\ ~th[t].perf_config[k]
              /\ th' = [th EXCEPT ![t] = NextCounter(@)]
              /\ UNCHANGED groups
    /\ UNCHANGED <<now, calc>>

\* pec.enable()?
Enable(t) ==
    /\ th[t].pc = "enable"
    /\ LET g == th[t].collector.val.group
       IN  \/ /\ groups' = [Touch(groups, g, t) EXCEPT ![g].enabled = TRUE]
              /\ th' = [th EXCEPT ![t].pc = "start", ![t].log = Append(@, "enable")]
           \/ /\ groups' = DropCollector(groups, th[t].collector)
              /\ th' = [th EXCEPT ![t].pc = "return", ![t].collector = None,
                                  ![t].result = Some(Err("collector_enable"))]
    /\ UNCHANGED <<now, calc>>

\* let start = Instant::now(); the prefetch hint that follows changes no state.
StartTimer(t) ==
    /\ th[t].pc = "start"
    /\ th' = [th EXCEPT ![t].pc = "transact", ![t].start = Some(now),
                        ![t].log = Append(@, "start")]
    /\ UNCHANGED <<groups, now, calc>>

\* execute_test_transact(&mut evm, test_tx)?: the workload runs once on this
\* thread; the clock advances and the thread's events are counted by the
\* enabled groups that observe it. An Err from transact returns at once.
Transact(t) ==
    /\ th[t].pc = "transact"
    /\ \E w \in th[t].wl :
         LET counted == CountEvents(groups, t, EventProfile(w.n, w.d))
         IN  /\ now' = now + w.tick
             /\ IF w.outcome = "error"
                THEN /\ groups' = DropCollector(counted, th[t].collector)
                     /\ th' = [th EXCEPT ![t].pc = "return", ![t].work = Some(w),
                                         ![t].collector = None,
                                         ![t].result = Some(Err("transact")),
                                         ![t].log = Append(@, "invoke")]
                ELSE /\ groups' = counted
                     /\ th' = [th EXCEPT ![t].pc = "elapsed", ![t].work = Some(w),
                                         ![t].test_result = Some(w.outcome),
                                         ![t].log = Append(@, "invoke")]
    /\ UNCHANGED calc

\* A plausible slip: the counts are read before the group is disabled.
ReportStepsReadFirst == << "read", "disable" >>

\* The two calls PerfEventCollector::report makes on the group, in order:
\* self.group.disable()? and then self.group.read()?.
ReportSteps == << "disable", "read" >>

\* Where control goes after the report step `step` succeeded.
AfterReportStep(step) ==
    IF step = ReportSteps[1] THEN ReportSteps[2] ELSE "classify"

\* A plausible slip: the two timestamps are subtracted the wrong way round.
ElapsedSinceSwapped(start, clock) == start - clock

\* Instant::elapsed: the monotonic clock's reading minus the start timestamp.
ElapsedSince(start, clock) == clock - start

\* let elapsed = start.elapsed();
Elapsed(t) ==
    /\ th[t].pc = "elapsed"
    /\ th' = [th EXCEPT ![t].pc = IF IsSome(th[t].collector) THEN ReportSteps[1]
                                  ELSE "classify",
                        ![t].elapsed = Some(ElapsedSince(th[t].start.val, now)),
                        ![t].log = Append(@, "end")]
    /\ UNCHANGED <<groups, now, calc>>

\* A plausible slip: a failed report is dropped (.ok()) and the result is
\* built without it.
ReportFailedIgnored(thr) == [thr EXCEPT !.pc = "classify", !.perf_report = None]

\* .map(PerfEventCollector::report).transpose()?: an error of disable or read
\* returns from execute_test.
ReportFailed(thr) ==
    [thr EXCEPT !.pc = "return", !.collector = None,
                !.result = Some(Err("collector_read"))]

\* PerfEventCollector::report: self.group.disable()?
Disable(t) ==
    /\ th[t].pc = "disable"
    /\ LET g == th[t].collector.val.group
       IN  \/ /\ groups' = [Touch(groups, g, t) EXCEPT ![g].enabled = FALSE]
              /\ th' = [th EXCEPT ![t].pc = AfterReportStep("disable"),
                                  ![t].log = Append(@, "disable")]
           \/ /\ th' = [th EXCEPT ![t] = ReportFailed(@)]
              /\ groups' = DropOnReturn(groups, th[t], th'[t])
    /\ UNCHANGED <<now, calc>>

\* PerfEventCollector::report: self.group.read()? and the report derived from
\* the counts (f64::from_u64 never fails for f64).
Read(t) ==
    /\ th[t].pc = "read"
    /\ LET g == th[t].collector.val.group
       IN  \/ /\ groups' = Touch(groups, g, t)
              /\ th' = [th EXCEPT ![t].pc = AfterReportStep("read"),
                                  ![t].perf_report =
                                      Some(DeriveReport(th[t].collector.val.counters,
                                                        groups[g].counts)),
                                  ![t].log = Append(@, "read")]
           \/ /\ th' = [th EXCEPT ![t] = ReportFailed(@)]
              /\ groups' = DropOnReturn(groups, th[t], th'[t])
    /\ UNCHANGED <<now, calc>>

\* A plausible slip: a reverted transaction is reported like a successful one.
ClassifyResultNoCheck(outcome, elapsed, perf_report) ==
    Ok([duration_ns |-> F64FromU64(elapsed), perf_report |-> perf_report])

\* if !test_result.result.is_success() { bail!(..) }  Ok(TestResult { .. })
ClassifyResult(outcome, elapsed, perf_report) ==
    IF outcome # "success"
    THEN Err("reverted")
    ELSE Ok([duration_ns |-> F64FromU64(elapsed), perf_report |-> perf_report])

\* The end of execute_test: the outcome is classified, the result is built
\* and the collector is dropped on return.
Classify(t) ==
    /\ th[t].pc = "classify"
    /\ LET r == ClassifyResult(th[t].test_result.val, th[t].elapsed.val,
                               th[t].perf_report)
       IN  th' = [th EXCEPT ![t].pc = "return", ![t].collector = None,
                            ![t].result = Some(r),
                            ![t].log = Append(@, IF IsOk(r) THEN "result"
                                                 ELSE "bail")]
    /\ groups' = DropCollector(groups, th[t].collector)
    /\ UNCHANGED <<now, calc>>

\* What the entry point returns for the core's result: the napi bindings map
\* the value with TestResult::from, the CLI returns () after printing.
EntryReturn(e, r) ==
    CASE e \in NapiEntries /\ IsOk(r) -> Ok(NapiTestResultFrom(r.val))
      [] e \in CliEntries /\ IsOk(r)  -> Ok("unit")
      [] OTHER                        -> r

\* The entry point's own code after the core execute_test returned; the CLI
\* prints serde_json::to_string(&test_result).
Return(t) ==
    /\ th[t].pc = "return"
    /\ LET r == th[t].result.val
       IN  th' = [th EXCEPT ![t].pc = "done",
                            ![t].ret = Some(EntryReturn(th[t].entry, r)),
                            ![t].stdout =
                                IF th[t].entry \in CliEntries /\ IsOk(r)
                                THEN Some(SerializeTestResult(r.val))
                                ELSE None]
    /\ UNCHANGED <<groups, now, calc>>

Step(t) ==
    \/ Call(t)
    \/ Prepare(t)
    \/ MakeCollector(t)
    \/ GroupNew(t)
    \/ ProgramCounter(t)
    \/ Enable(t)
    \/ StartTimer(t)
    \/ Transact(t)
    \/ Elapsed(t)
    \/ Disable(t)
    \/ Read(t)
    \/ Classify(t)
    \/ Return(t)

\* One invocation, on thread t1, of any entry point with any argument and
\* any workload.
Init ==
    /\ \E e \in Entries : \E a \in EntryArgs(e) :
         th = [t \in Threads |-> IF t = "t1" THEN NewThread(e, a, Workloads)
                                ELSE IdleThread]
    /\ groups = [g \in GroupIds |-> ClosedGroup]
    /\ now = 0
    /\ calc = CalcIdle

Next == \E t \in Threads : Step(t)

Spec == Init /\ [][Next]_vars

\* ------------------------------------------- the pure functions on their own

\* resolve: the requested metrics are converted to the required counters.
CalcResolve ==
    /\ calc.stage = "requested"
    /\ calc' = [calc EXCEPT !.stage = "resolved",
                            !.required = FromReportConfig(calc.requested)]
    /\ UNCHANGED <<th, groups, now>>

\* PerfEventCollector::new with every build succeeding: a counter is Some
\* exactly for the flags of the config that are set.
CalcOpen ==
    /\ calc.stage = "resolved"
    /\ calc' = [calc EXCEPT !.stage = "opened",
                            !.counters = RequiredCounters(calc.required)]
    /\ UNCHANGED <<th, groups, now>>

\* group.read(): any count for each counter of the group.
CalcRead ==
    /\ calc.stage = "opened"
    /\ \E c \in [calc.counters -> 0..MaxCount] :
         calc' = [calc EXCEPT !.stage = "read",
                              !.counts = [k \in Counters |->
                                             IF k \in calc.counters THEN c[k]
                                             ELSE 0]]
    /\ UNCHANGED <<th, groups, now>>

\* The derivation of PerfEventCollector::report.
CalcReport ==
    /\ calc.stage = "read"
    /\ calc' = [calc EXCEPT !.stage = "reported",
                            !.report = Some(DeriveReport(calc.counters, calc.counts))]
    /\ UNCHANGED <<th, groups, now>>

\* Every PerfReportConfig, no invocation running.
InitReport ==
    /\ \E c \in PerfReportConfigs : calc = [CalcIdle EXCEPT !.stage = "requested",
                                                           !.requested = c]
    /\ th = [t \in Threads |-> IdleThread]
    /\ groups = [g \in GroupIds |-> ClosedGroup]
    /\ now = 0

NextReport == CalcResolve \/ CalcOpen \/ CalcRead \/ CalcReport

SpecReport == InitReport /\ [][NextReport]_vars

\* ------------------------------------------------ invocations in parallel

\* The arguments of the parallel runs: no config, an all-false config, and
\* configs that need one counter, two counters and a shared counter.
ParConfigs ==
    { [m \in Metrics |-> m \in on] :
        on \in { {}, {"cpu_migrations"}, {"instructions", "instructions_per_cycle"} } }

\* The workloads of the parallel runs: each thread's transaction generates
\* its own number of events, so that a count taken from the other thread shows.
ParWorkloads(t) ==
    { [outcome |-> o, n |-> IF t = "t1" THEN 1 ELSE 2, d |-> 1, tick |-> 1] :
        o \in { "success", "revert", "error" } }

\* The arguments of a parallel run on entry point e.
ParArgs(e) == { a \in EntryArgs(e) : IsNone(a) \/ a.val \in ParConfigs }

\* Two invocations at once, each on its own thread: one dispatched with
\* spawn_blocking, the other through any entry point.
InitPar ==
    /\ \E e1 \in AsyncEntries, e2 \in Entries :
       \E a1 \in ParArgs(e1), a2 \in ParArgs(e2) :
         th = [t \in Threads |->
                 IF t = "t1" THEN NewThread(e1, a1, ParWorkloads(t))
                 ELSE NewThread(e2, a2, ParWorkloads(t))]
    /\ groups = [g \in GroupIds |-> ClosedGroup]
    /\ now = 0
    /\ calc = CalcIdle

SpecPar == InitPar /\ [][Next]_vars

\* ------------------------------------------------------------------ claims

\* The mapping table of the specification: the counters each metric needs.
MetricTable ==
    [ instructions                |-> { "instructions" },
      instructions_per_cycle      |-> { "cycles", "instructions" },
      last_level_cache_hit_rate   |-> { "last_level_cache_references",
                                        "last_level_cache_misses" },
      l1_data_cache_hit_rate      |-> { "l1_data_cache_reads",
                                        "l1_data_cache_misses" },
      l1_instruction_cache_misses |-> { "l1_instruction_cache_misses" },
      branch_miss_ratio           |-> { "branch_instructions", "branch_misses" },
      cpu_migrations              |-> { "cpu_migrations" } ]

\* The metrics a PerfReportConfig has set.
Requested(config) == { m \in Metrics : config[m] }

\* C1: for every combination of the seven flags, the converted configuration
\* sets exactly the union of the counters the table lists for the flags that
\* are true, and no other counter.
C1_ResolveIsUnionOfTable ==
    calc.stage \in { "resolved", "opened", "read", "reported" } =>
        RequiredCounters(calc.required) =
            UNION { MetricTable[m] : m \in Requested(calc.requested) }

\* C1 witness: instructions and instructions-per-cycle requested, and exactly
\* the instructions and cycles counters required.
C1_Witness ==
    /\ calc.stage = "resolved"
    /\ Requested(calc.requested) = { "instructions", "instructions_per_cycle" }
    /\ RequiredCounters(calc.required) = { "instructions", "cycles" }

\* C3 as stated: every report slot whose flag is false is absent.
C3_SlotOnlyIfRequested ==
    calc.stage = "reported" =>
        \A m \in Metrics : ~calc.requested[m] => IsNone(calc.report.val[m])

\* C3 amended: a report slot is present only if its metric was requested,
\* except the instructions slot, which is present also when only
\* instructions-per-cycle was requested (the counter is shared).
C3_SlotOnlyIfCountersRequired ==
    calc.stage = "reported" =>
        /\ \A m \in Metrics :
             IsSome(calc.report.val[m]) =>
                 \/ calc.requested[m]
                 \/ m = "instructions" /\ calc.requested.instructions_per_cycle
        /\ calc.requested.instructions_per_cycle =>
               IsSome(calc.report.val.instructions)

\* C3 witness: only instructions-per-cycle requested, and the instructions
\* slot of the report is present.
C3_Witness ==
    /\ calc.stage = "reported"
    /\ Requested(calc.requested) = { "instructions_per_cycle" }
    /\ IsSome(calc.report.val.instructions)
    /\ IsNone(calc.report.val.cpu_migrations)

\* The two-counter metrics: numerator counter, denominator counter, and
\* whether the value is the ratio or one minus the ratio.
RatioMetrics ==
    { [metric |-> "instructions_per_cycle", num |-> "instructions",
       den |-> "cycles", complement |-> FALSE],
      [metric |-> "last_level_cache_hit_rate", num |-> "last_level_cache_misses",
       den |-> "last_level_cache_references", complement |-> TRUE],
      [metric |-> "l1_data_cache_hit_rate", num |-> "l1_data_cache_misses",
       den |-> "l1_data_cache_reads", complement |-> TRUE],
      [metric |-> "branch_miss_ratio", num |-> "branch_misses",
       den |-> "branch_instructions", complement |-> FALSE] }

\* The rational v equals n / d, and, with complement, 1 - n / d.
EqualsFormula(v, n, d, complement) ==
    IF complement THEN v[1] * d = (d - n) * v[2] ELSE v[1] * d = n * v[2]

\* The single-counter metrics and their counter.
SingleMetrics ==
    { [metric |-> "instructions", counter |-> "instructions"],
      [metric |-> "l1_instruction_cache_misses",
       counter |-> "l1_instruction_cache_misses"],
      [metric |-> "cpu_migrations", counter |-> "cpu_migrations"] }

\* C4: a two-counter metric is present exactly when both its counters are in
\* the group and its denominator count is non-zero, and then equals its
\* formula; a zero denominator gives an absent value; the report is always
\* produced, and every other slot depends on its own counters only.
C4_RatiosDegradeToAbsent ==
    calc.stage = "reported" =>
        /\ IsSome(calc.report)
        /\ \A r \in RatioMetrics :
             LET v == calc.report.val[r.metric]
             IN  /\ IsSome(v) <=> /\ r.num \in calc.counters
                                  /\ r.den \in calc.counters
                                  /\ calc.counts[r.den] # 0
                 /\ IsSome(v) => /\ v.val[2] > 0
                                 /\ EqualsFormula(v.val, calc.counts[r.num],
                                                  calc.counts[r.den], r.complement)
        /\ \A s \in SingleMetrics :
             LET v == calc.report.val[s.metric]
             IN  /\ IsSome(v) <=> s.counter \in calc.counters
                 /\ IsSome(v) => v.val = <<calc.counts[s.counter], 1>>

\* C4 witness: last-level cache references and misses both counted as 0, the
\* hit rate absent, and the instructions-per-cycle of the same report present.
C4_Witness ==
    /\ calc.stage = "reported"
    /\ { "last_level_cache_references", "last_level_cache_misses" }
           \subseteq calc.counters
    /\ calc.counts.last_level_cache_references = 0
    /\ calc.counts.last_level_cache_misses = 0
    /\ IsNone(calc.report.val.last_level_cache_hit_rate)
    /\ IsSome(calc.report.val.instructions_per_cycle)
    /\ calc.report.val.l1_data_cache_hit_rate = Some(<<0, 1>>)

\* The threads that run an invocation.
Active == { t \in Threads : th[t].pc # "idle" }

\* The event e is in the log of thread t.
Logged(t, e) == \E i \in 1..Len(th[t].log) : th[t].log[i] = e

\* The caller of thread t requested no metric: no config, or a config with
\* all seven flags false.
RequestedEmpty(t) ==
    IsNone(th[t].arg) \/ Requested(th[t].arg.val) = {}

\* The steps of execute_test from the start timestamp to the classification.
MeasuringPcs == { "transact", "elapsed", "disable", "read", "classify" }

\* C2 as stated: when no metric is requested, on every entry point no counter
\* group is opened or enabled and the TestResult returned has no perf_report.
C2_EmptyRequestOpensNoGroup ==
    \A t \in Active :
        RequestedEmpty(t) =>
            /\ ~Logged(t, "open")
            /\ ~Logged(t, "enable")
            /\ IsNone(th[t].collector)
            /\ (IsSome(th[t].result) /\ IsOk(th[t].result.val)) =>
                   IsNone(th[t].result.val.val.perf_report)

\* C5: with a config supplied, a failed open or enable returns the
\* collector's error before any timestamp is taken or the workload invoked,
\* and no TestResult is returned; a measurement runs only with every required
\* counter programmed in an enabled group.
C5_OpenIsAllOrNothing ==
    \A t \in Active :
        /\ (IsSome(th[t].perf_report_config) /\ th[t].pc \in MeasuringPcs) =>
               /\ IsSome(th[t].collector)
               /\ th[t].collector.val.counters = RequiredCounters(th[t].perf_config)
               /\ groups[th[t].collector.val.group].members =
                      RequiredCounters(th[t].perf_config)
               /\ Logged(t, "enable")
               /\ th[t].pc = "transact" =>
                      groups[th[t].collector.val.group].enabled
        /\ (/\ IsSome(th[t].perf_report_config)
            /\ th[t].pc \in { "return", "done" }
            /\ th[t].log \in { <<>>, <<"open">> }
            /\ th[t].result.val # Err("setup")) =>
               /\ th[t].result.val \in { Err("collector_open"),
                                         Err("collector_enable") }
               /\ IsNone(th[t].start)
               /\ IsNone(th[t].work)
               /\ IsNone(th[t].elapsed)
               /\ IsNone(th[t].perf_report)
               /\ IsNone(th[t].collector)
               /\ th[t].pc = "done" => IsErr(th[t].ret.val) /\ IsNone(th[t].stdout)

\* C5 witness: the cycles counter was programmed, a later counter failed to
\* build, and execute_test returned the error with no timestamp taken.
C5_Witness ==
    \E t \in Active :
        /\ th[t].pc = "done"
        /\ th[t].perf_config.cycles
        /\ th[t].idx > 1
        /\ th[t].log = <<"open">>
        /\ th[t].result.val = Err("collector_open")
        /\ IsNone(th[t].start)

\* C6: an invocation whose transaction reverted or halted returns an error
\* and never a TestResult, whatever the duration and the perf report.
C6_FailedWorkloadIsError ==
    \A t \in Active :
        (/\ IsSome(th[t].test_result)
         /\ th[t].test_result.val \in { "revert", "halt" }
         /\ IsSome(th[t].result)) =>
            /\ IsErr(th[t].result.val)
            /\ th[t].pc = "done" => IsErr(th[t].ret.val) /\ IsNone(th[t].stdout)

\* C6 witness: the transaction reverted after a positive duration, with the
\* perf report collected, and execute_test returned the revert error.
C6_Witness ==
    \E t \in Active :
        /\ th[t].pc = "done"
        /\ th[t].test_result = Some("revert")
        /\ th[t].elapsed.val > 0
        /\ IsSome(th[t].perf_report)
        /\ th[t].result.val = Err("reverted")

\* C7 as stated: the output holds a key for an optional field (perfReport and
\* each of its seven slots) exactly when the field is present.
C7_AbsentFieldsOmitted ==
    \A t \in Active :
        IsSome(th[t].stdout) =>
            LET out == th[t].stdout.val.fields
                r   == th[t].result.val.val
            IN  /\ "durationNs" \in DOMAIN out
                /\ "perfReport" \in DOMAIN out <=> IsSome(r.perf_report)
                /\ IsSome(r.perf_report) =>
                       \A m \in Metrics :
                           CamelCase[m] \in DOMAIN out.perfReport.fields
                               <=> IsSome(r.perf_report.val[m])

\* C8: when the group was enabled, the workload ran and the end timestamp
\* was taken, but disable or read failed, execute_test returns an error and
\* no TestResult, also when the workload succeeded.
C8_ReadFailureDiscardsDuration ==
    \A t \in Active :
        (/\ th[t].pc \in { "return", "done" }
         /\ Logged(t, "enable")
         /\ Logged(t, "end")
         /\ ~Logged(t, "read")) =>
            /\ IsErr(th[t].result.val)
            /\ th[t].pc = "done" => IsErr(th[t].ret.val) /\ IsNone(th[t].stdout)

\* C8 witness: the workload succeeded, the duration was measured, the group
\* was disabled, the read failed, and execute_test returned the read error.
C8_Witness ==
    \E t \in Active :
        /\ th[t].pc = "done"
        /\ th[t].test_result = Some("success")
        /\ IsSome(th[t].elapsed)
        /\ Logged(t, "disable")
        /\ ~Logged(t, "read")
        /\ th[t].result.val = Err("collector_read")

\* The perf report thread t's own inputs determine: derived from the events
\* of its own workload on the counters its own config requires.
OwnReport(t) ==
    IF IsNone(th[t].perf_report_config) THEN None
    ELSE Some(DeriveReport(
             RequiredCounters(FromReportConfig(th[t].perf_report_config.val)),
             [k \in Counters |->
                 IF k \in RequiredCounters(
                        FromReportConfig(th[t].perf_report_config.val))
                 THEN EventProfile(th[t].work.val.n, th[t].work.val.d)[k]
                 ELSE 0]))

\* C9: invocations in parallel each hold their own group, a group is used
\* only by the thread that opened it, and the report and the outcome of an
\* invocation are those its own inputs and its own workload determine.
C9_InvocationsAreIndependent ==
    /\ \A t \in Active : \A u \in Active \ {t} :
           (IsSome(th[t].collector) /\ IsSome(th[u].collector)) =>
               th[t].collector.val.group # th[u].collector.val.group
    /\ \A t \in Active :
           IsSome(th[t].collector) =>
               /\ groups[th[t].collector.val.group].open
               /\ groups[th[t].collector.val.group].owner = t
    /\ \A g \in GroupIds : groups[g].open => groups[g].users = { groups[g].owner }
    /\ \A t \in Active :
           /\ th[t].pc = "classify" => th[t].perf_report = OwnReport(t)
           /\ (IsSome(th[t].result) /\ IsOk(th[t].result.val)) =>
                  /\ th[t].work.val.outcome = "success"
                  /\ th[t].result.val.val.perf_report = OwnReport(t)

\* C9 witness: both threads have run their workload while both groups were
\* open and enabled, and the two groups hold different counts.
C9_Witness ==
    /\ th["t1"].pc = "elapsed" /\ th["t2"].pc = "elapsed"
    /\ IsSome(th["t1"].collector) /\ IsSome(th["t2"].collector)
    /\ groups[th["t1"].collector.val.group].enabled
    /\ groups[th["t2"].collector.val.group].enabled
    /\ groups[th["t1"].collector.val.group].counts.instructions = 1
    /\ groups[th["t2"].collector.val.group].counts.instructions = 2

C11_GroupTornDownOnEveryExit ==
    \A t \in Active :
        (th[t].pc \in { "return", "done" } /\ Logged(t, "enable")) =>
            /\ IsNone(th[t].collector)
            /\ \A g \in GroupIds :
                   ~(groups[g].open /\ groups[g].owner = t)
            /\ \A g \in GroupIds :
                   ~(groups[g].enabled /\ t \in groups[g].users)

\* C11 witness: transact returned an error while the group was enabled, so
\* that disable never ran, and after the return no group is open.
C11_Witness ==
    \E t \in Active :
        /\ th[t].pc = "return"
        /\ th[t].log = <<"open", "enable", "start", "invoke">>
        /\ th[t].result.val = Err("transact")
        /\ RequiredCounters(th[t].perf_config) # {}
        /\ \A g \in GroupIds : ~groups[g].open

\* The events of one invocation, in the order the claim gives them, for a
\* run with a collector (a config was supplied) and for a run without one.
MeasurementOrder(withCollector) ==
    (IF withCollector THEN <<"open", "enable">> ELSE <<>>)
        \o <<"start", "invoke", "end">>
        \o (IF withCollector THEN <<"disable", "read">> ELSE <<>>)

\* The sequence s is a prefix of the sequence u.
IsPrefix(s, u) ==
    /\ Len(s) <= Len(u)
    /\ \A i \in 1..Len(s) : s[i] = u[i]

\* How often the event e is in the log of thread t.
Occurrences(t, e) == Cardinality({ i \in 1..Len(th[t].log) : th[t].log[i] = e })

====
